---------------------------- MODULE Spec2Model ----------------------------
(***************************************************************************)
(* State aggregation and positioning in pcdsdevices:                       *)
(*   epics/state.py  State, PVState, DeviceStatesRecord                    *)
(*   inout.py        InOutPositioner and its subclasses                    *)
(*   lodcm.py        LODCM and its diagnostics                             *)
(*                                                                         *)
(* Each part of the library is a specification of its own over the shared  *)
(* variables; the variables of the other parts stay at their idle values.  *)
(***************************************************************************)
EXTENDS Integers, Sequences, FiniteSets, TLC

VARIABLES
    \* ---- PVState (epics/state.py)
    _states,          \* PVState._states: signal name -> table readback -> state
    readback,         \* signal name -> raw readback held by the monitor
    result,           \* what the last read of PVState.value returned
    \* ---- State._update, one callback thread per signal
    pc,               \* signal name -> position of its callback thread
    lock,             \* State._lock: owner, or NoOwner
    _prev_value,      \* State._prev_value
    notified,         \* the value the SUB_STATE subscribers saw when last run
    nupdates,         \* number of monitor events delivered so far
    \* ---- DeviceStatesRecord (epics/state.py)
    state_rbk,        \* state.get(): readback enum string
    state_set,        \* state.get_setpoint(as_string=True)
    _move_requested,  \* DeviceStatesRecord._move_requested
    status,           \* status of the move in flight: [done, success]
    nputs,            \* number of state.put calls issued
    rec_op,           \* the last operation on the record and its input
    \* ---- InOutPositioner (inout.py)
    dev,              \* the device: its class (and, for Foil, its prefix)
    position,         \* the device's current position (state name)
    requested,        \* targets of the moves requested so far
    ret,              \* what the last call returned or raised
    io_op,            \* the last operation called on the device
    \* ---- LODCM (lodcm.py)
    h1n,              \* LODCM.position
    dia,              \* diagnostic name -> its position
    main_line,        \* LODCM.main_line
    mono_line,        \* LODCM.mono_line
    dest,             \* what the last read of LODCM.destination returned
    \* ---- LODCM (epics/lodcm.py)
    h1n_state,        \* h1n_state.value
    h2n_state,        \* h2n_state.value
    line,             \* the line argument of the last destination call
    el_ret,           \* what the last destination call returned or raised
    \* ---- PCDSMotorBase (epics_motor.py)
    disabled,             \* the DISP record
    motor_spg,            \* the SPG record: index of its enum state
    spg_string,           \* whether motor_spg.value is the enum string
    low_soft_limit,       \* the LLM record
    high_soft_limit,      \* the HLM record
    pv_limits,            \* limits pyepics cached for the setpoint PV
    direction_of_travel,  \* the direction_of_travel signal
    _position,            \* PositionerBase._position
    m_op,                 \* the last call on the motor and its arguments
    m_ret,                \* what that call returned or raised
    last_spg_cmd,         \* the last of stop, pause, go, resume called
    limits_set,           \* the limits last assigned through limits = (a, b)
    last_known,           \* the last position update with both values known
    \* ---- IMS (epics_motor.py)
    part_number,      \* the PN record
    error_severity,   \* the SEVR record
    bit_status,       \* the MSTA record
    ims_pc,           \* where the running stage() or auto_setup() stands
    ims_call,         \* which of the two was called last
    ims_at_call,      \* part number and severity as that call read them
    ims_log,          \* what that call has done so far, in order
    ims_puts,         \* the puts that call has issued, in order
    ims_ret,          \* how that call ended
    \* ---- SubscriptionStatus (epics/state.py)
    callback,         \* the user callback: its outcome on each value
    device_value,     \* the value of the last event of the device
    st_created,       \* whether the status has been constructed
    st_raised,        \* whether the constructor raised
    st_timeout,       \* whether the status was given a timeout
    subscribed,       \* whether check_value is subscribed to the device
    st_done,          \* StatusBase.done
    st_success,       \* StatusBase.success
    nevents,          \* events of the device since the construction
    seen,             \* the values of the device since the construction
    outcomes,         \* the outcomes of the user callback, in order
    timed_out_at,     \* how many values had been seen at the timeout
    nfinished,        \* how often the status has been marked finished
    \* ---- StateStatus (epics/state.py) on a PVState
    ss_created,       \* whether the status has been constructed
    ss_desired,       \* its desired_state
    ss_subscribed,    \* whether its check_value is subscribed to SUB_STATE
    ss_done,          \* StatusBase.done
    ss_success,       \* StatusBase.success
    ss_at_create,     \* device.value when the status was constructed
    ss_finished_on,   \* device.value as read by the check that finished it
    \* ---- GaugeSet (gauge.py)
    gs_class,         \* the class of the gauge set the factory returned
    gs_args,          \* the arguments the factory was called with
    gcc_state,        \* gcc.state
    gcc_pressure,     \* gcc.pressure
    gpi_pressure,     \* gpi.pressure
    gs_ret            \* what the last pressure() returned

vars == << _states, readback, result, pc, lock, _prev_value, notified,
           nupdates, state_rbk, state_set, _move_requested, status, nputs,
           rec_op, dev, position, requested, ret, io_op, h1n, dia,
           main_line, mono_line, dest, h1n_state, h2n_state, line, el_ret,
           disabled, motor_spg, spg_string, low_soft_limit, high_soft_limit,
           pv_limits, direction_of_travel, _position, m_op, m_ret,
           last_spg_cmd, limits_set, last_known,
           part_number, error_severity, bit_status, ims_pc, ims_call,
           ims_at_call, ims_log, ims_puts, ims_ret,
           callback, device_value, st_created, st_raised, st_timeout,
           subscribed, st_done, st_success, nevents, seen, outcomes,
           timed_out_at, nfinished,
           ss_created, ss_desired, ss_subscribed, ss_done, ss_success,
           ss_at_create, ss_finished_on,
           gs_class, gs_args, gcc_state, gcc_pressure, gpi_pressure, gs_ret >>

pvVars  == << _states, readback, result >>
updVars == << pc, lock, _prev_value, notified, nupdates >>
recVars == << state_rbk, state_set, _move_requested, status, nputs, rec_op >>
ioVars  == << dev, position, requested, ret, io_op >>
lomVars == << h1n, dia, main_line, mono_line, dest >>
elVars  == << h1n_state, h2n_state, line, el_ret >>
\* the parts that have nothing to do with state aggregation
motVars == << disabled, motor_spg, spg_string, low_soft_limit,
             high_soft_limit, pv_limits, direction_of_travel, _position,
             m_op, m_ret, last_spg_cmd, limits_set, last_known >>
imsVars == << part_number, error_severity, bit_status, ims_pc, ims_call,
             ims_at_call, ims_log, ims_puts, ims_ret >>
subVars == << callback, device_value, st_created, st_raised, st_timeout,
             subscribed, st_done, st_success, nevents, seen, outcomes,
             timed_out_at, nfinished >>
ssVars == << ss_created, ss_desired, ss_subscribed, ss_done, ss_success,
            ss_at_create, ss_finished_on >>
gaugeVars == << gs_class, gs_args, gcc_state, gcc_pressure, gpi_pressure,
               gs_ret >>
tailVars == << ssVars, gaugeVars >>
restVars == << elVars, motVars, imsVars, subVars, tailVars >>

\* Python's None
None == "None"

\* Python truthiness of a state name or None
Truthy(v) == v # None /\ v # ""

-----------------------------------------------------------------------------
(***************************************************************************)
(* PVState: a state aggregated from the readbacks of several signals.      *)
(***************************************************************************)

\* number of state signals of the PVState class
NSignals == 3
\* raw readbacks range over 0 .. MaxReadback
MaxReadback == 4

Signals == 1 .. NSignals
Readbacks == 0 .. MaxReadback

\* the table of the pvstate_class docstring
DocTable == (0 :> "out") @@ (1 :> "in") @@ (2 :> "unknown") @@ (3 :> "defer")
\* a signal that only ever votes for IN or defers
InTable == (0 :> "defer") @@ (1 :> "in")
\* a signal with a third state and no deferral
TriTable == (0 :> "out") @@ (1 :> "in") @@ (2 :> "ccm")

Tables == {DocTable, InTable, TriTable}

\* PVState.value with the mismatch assertion taken out
RECURSIVE ValueLoopNoAssert(_, _, _, _)
ValueLoopNoAssert(tables, rb, i, state_value) ==
    IF i > Len(tables) THEN state_value
    ELSE LET info == tables[i]
             pv_value == rb[i]
         IN  IF pv_value \notin DOMAIN info THEN "unknown"
             ELSE LET signal_state == info[pv_value]
                  IN  IF signal_state # "defer"
                      THEN ValueLoopNoAssert(tables, rb, i + 1, signal_state)
                      ELSE ValueLoopNoAssert(tables, rb, i + 1, state_value)

\* PVState.value treating 'defer' as a state name like any other
RECURSIVE ValueLoopNoDefer(_, _, _, _)
ValueLoopNoDefer(tables, rb, i, state_value) ==
    IF i > Len(tables) THEN state_value
    ELSE LET info == tables[i]
             pv_value == rb[i]
         IN  IF pv_value \notin DOMAIN info THEN "unknown"
             ELSE LET signal_state == info[pv_value]
                  IN  IF Truthy(state_value) /\ signal_state # state_value
                      THEN "unknown"
                      ELSE ValueLoopNoDefer(tables, rb, i + 1, signal_state)

\* the for loop of PVState.value from signal i on; state_value is the local
RECURSIVE ValueLoop(_, _, _, _)
ValueLoop(tables, rb, i, state_value) ==
    IF i > Len(tables) THEN state_value
    ELSE LET info == tables[i]
             pv_value == rb[i]
         IN  IF pv_value \notin DOMAIN info
             THEN "unknown"                          \* KeyError: break
             ELSE LET signal_state == info[pv_value]
                  IN  IF signal_state # "defer"
                      THEN IF Truthy(state_value) /\ signal_state # state_value
                           THEN "unknown"            \* AssertionError: break
                           ELSE ValueLoop(tables, rb, i + 1, signal_state)
                      ELSE ValueLoop(tables, rb, i + 1, state_value)

\* PVState.value (the property getter)
PVValue(tables, rb) ==
    LET state_value == ValueLoop(tables, rb, 1, None)
    IN  IF Truthy(state_value) THEN state_value ELSE "unknown"


\* idle values of the PVState variables
PVIdle == _states = << >> /\ readback = << >> /\ result = None

\* the PVState has been built from some tables; its signals hold some readbacks
ValueInit ==
    /\ _states \in [Signals -> Tables]
    /\ readback \in [Signals -> Readbacks]
    /\ result = None

\* a caller reads PVState.value
ReadValue ==
    /\ result = None
    /\ result' = PVValue(_states, readback)
    /\ UNCHANGED << _states, readback >>
    /\ UNCHANGED << updVars, recVars, ioVars, lomVars, restVars >>

\* the signal's readback is a key of its table
Accounted(i) == readback[i] \in DOMAIN _states[i]
\* the state name the signal's table gives for its readback
Mapped(i) == _states[i][readback[i]]
\* the signals that vote for a state
Voting == {i \in Signals : Accounted(i) /\ Mapped(i) # "defer"}
\* every state name a table can give
StateNames == UNION {{t[k] : k \in DOMAIN t} : t \in Tables} \ {"defer"}

-----------------------------------------------------------------------------
(***************************************************************************)
(* State._update: the callback every signal's monitor thread runs after it *)
(* has stored a new readback.                                              *)
(***************************************************************************)

\* monitor events delivered in one behaviour
MaxUpdates == 3

NoOwner == 0

UpdIdle ==
    /\ pc = << >>
    /\ lock = NoOwner
    /\ _prev_value = None
    /\ notified = None
    /\ nupdates = 0

\* State.__init__ and PVState.__init__: nothing notified yet
UpdateInit ==
    /\ _states = [i \in Signals |-> DocTable]
    /\ readback \in [Signals -> {0, 1}]
    /\ result = None
    /\ pc = [i \in Signals |-> "idle"]
    /\ lock = NoOwner
    /\ _prev_value = None
    /\ notified = None
    /\ nupdates = 0

\* PVState.value as a thread reads it now
value == PVValue(_states, readback)

\* the monitor of signal s stores a new readback and calls _update
SignalUpdate(s, v) ==
    /\ pc[s] = "idle"
    /\ nupdates < MaxUpdates
    /\ readback' = [readback EXCEPT ![s] = v]
    /\ nupdates' = nupdates + 1
    /\ pc' = [pc EXCEPT ![s] = "enter"]
    /\ UNCHANGED << _states, result, lock, _prev_value, notified >>
    /\ UNCHANGED << recVars, ioVars, lomVars, restVars >>

\* with self._lock:
Acquire(s) ==
    /\ pc[s] = "enter"
    /\ lock = NoOwner
    /\ lock' = s
    /\ pc' = [pc EXCEPT ![s] = "test"]
    /\ UNCHANGED << pvVars, _prev_value, notified, nupdates >>
    /\ UNCHANGED << recVars, ioVars, lomVars, restVars >>

\* if self.value != self._prev_value:
Test(s) ==
    /\ pc[s] = "test"
    /\ pc' = [pc EXCEPT ![s] = IF value # _prev_value THEN "run" ELSE "exit"]
    /\ UNCHANGED << pvVars, lock, _prev_value, notified, nupdates >>
    /\ UNCHANGED << recVars, ioVars, lomVars, restVars >>

\* self._run_subs(sub_type=self.SUB_STATE): the subscribers read value
RunSubs(s) ==
    /\ pc[s] = "run"
    /\ notified' = value
    /\ pc' = [pc EXCEPT ![s] = "store"]
    /\ UNCHANGED << pvVars, lock, _prev_value, nupdates >>
    /\ UNCHANGED << recVars, ioVars, lomVars, restVars >>

\* self._prev_value = self.value
StorePrev(s) ==
    /\ pc[s] = "store"
    /\ _prev_value' = value
    /\ pc' = [pc EXCEPT ![s] = "exit"]
    /\ UNCHANGED << pvVars, lock, notified, nupdates >>
    /\ UNCHANGED << recVars, ioVars, lomVars, restVars >>

\* leaving the with block
Release(s) ==
    /\ pc[s] = "exit"
    /\ lock' = NoOwner
    /\ pc' = [pc EXCEPT ![s] = "idle"]
    /\ UNCHANGED << pvVars, _prev_value, notified, nupdates >>
    /\ UNCHANGED << recVars, ioVars, lomVars, restVars >>

\* no _update call is pending or running
Quiescent == \A s \in Signals : pc[s] = "idle"


-----------------------------------------------------------------------------
(***************************************************************************)
(* DeviceStatesRecord: a positioner over a standard states record.         *)
(***************************************************************************)

\* state.put calls issued in one behaviour
MaxPuts == 2

\* state.enum_strs of an IN/OUT states record
enum_strs == << "Unknown", "IN", "OUT" >>

\* a move target is a Python str or a Python int
StrT(s) == [int |-> FALSE, s |-> s, n |-> 0]
IntT(n) == [int |-> TRUE, s |-> "", n |-> n]

\* the enum strings as a set
EnumSet == {enum_strs[k] : k \in 1 .. Len(enum_strs)}

\* the targets callers pass: every enum string, one string that is no enum,
\* every index and one index out of range
Targets == {StrT(s) : s \in EnumSet \cup {"CCM"}}
               \cup {IntT(n) : n \in 0 .. Len(enum_strs)}

\* DeviceStatesRecord.check_value: TRUE when it returns, FALSE when it raises
check_value(t) ==
    IF t.int THEN t.n \in 0 .. Len(enum_strs) - 1 ELSE t.s \in EnumSet

\* Python's position != target for a str position
PyNeq(pos, t) == IF t.int THEN TRUE ELSE pos # t.s

\* the enum string the record shows for a value written to it
AsString(t) == IF t.int THEN enum_strs[t.n + 1] ELSE t.s

NoStatus == [made |-> FALSE, done |-> FALSE, success |-> FALSE]
NoOp == [name |-> "none", arg |-> StrT("")]

RecIdle ==
    /\ state_rbk = ""
    /\ state_set = ""
    /\ _move_requested = FALSE
    /\ status = NoStatus
    /\ nputs = 0
    /\ rec_op = NoOp

\* DeviceStatesRecord.__init__, connected to a record in any state
RecordInit ==
    /\ state_rbk \in EnumSet
    /\ state_set \in EnumSet
    /\ _move_requested = FALSE
    /\ status = NoStatus
    /\ nputs = 0
    /\ rec_op = NoOp

\* DeviceStatesRecord.position and DeviceStatesRecord.value
rec_position == state_rbk

\* _read_changed finishing a move whatever the readback
ReadChangedAny(v) ==
    /\ state_rbk' = v
    /\ rec_op' = [name |-> "read", arg |-> StrT(v)]
    /\ IF _move_requested
       THEN /\ _move_requested' = FALSE
            /\ status' = IF status.made /\ ~status.done
                         THEN [made |-> TRUE, done |-> TRUE,
                               success |-> (state_set = v)]
                         ELSE status
       ELSE UNCHANGED << _move_requested, status >>
    /\ UNCHANGED << state_set, nputs >>
    /\ UNCHANGED << pvVars, updVars, ioVars, lomVars, restVars >>

\* DeviceStatesRecord._read_changed, called with the new readback v
ReadChanged(v) ==
    /\ state_rbk' = v
    /\ rec_op' = [name |-> "read", arg |-> StrT(v)]
    /\ IF _move_requested /\ v # "Unknown"
       THEN /\ _move_requested' = FALSE
            \* _done_moving finishes the status that is still open
            /\ status' = IF status.made /\ ~status.done
                         THEN [made |-> TRUE, done |-> TRUE,
                               success |-> (state_set = v)]
                         ELSE status
       ELSE UNCHANGED << _move_requested, status >>
    /\ UNCHANGED << state_set, nputs >>
    /\ UNCHANGED << pvVars, updVars, ioVars, lomVars, restVars >>

\* DeviceStatesRecord.move(position=t, wait=False)
RecMove(t) ==
    /\ nputs < MaxPuts
    /\ rec_op' = [name |-> "move", arg |-> t]
    /\ IF ~check_value(t)
       THEN \* super().move raises StateError before anything is touched
            UNCHANGED << state_rbk, state_set, _move_requested, status, nputs >>
       ELSE /\ _move_requested' = TRUE
            /\ IF PyNeq(rec_position, t)
               THEN \* self.state.put(position, wait=False)
                    /\ state_set' = AsString(t)
                    /\ nputs' = nputs + 1
                    /\ status' = [made |-> TRUE, done |-> FALSE,
                                  success |-> FALSE]
               ELSE \* status._finished(success=True)
                    /\ status' = [made |-> TRUE, done |-> TRUE,
                                  success |-> TRUE]
                    /\ UNCHANGED << state_set, nputs >>
            /\ UNCHANGED state_rbk
    /\ UNCHANGED << pvVars, updVars, ioVars, lomVars, restVars >>

-----------------------------------------------------------------------------
(***************************************************************************)
(* InOutPositioner and the subclasses the repository defines.              *)
(***************************************************************************)

\* moves requested of one device in one behaviour
MaxMoves == 2

\* 'sub in prefix' for Python strings, both given as sequences of characters
IsSubstring(sub, str) ==
    \E k \in 0 .. Len(str) - Len(sub) :
        \A j \in 1 .. Len(sub) : str[k + j] = sub[j]

XPP == << "X", "P", "P" >>
XCS == << "X", "C", "S" >>

\* prefixes a device is built with
Prefixes == { << "X", "P", "P", ":", "F" >>,
              << "X", "C", "S", ":", "F" >>,
              << "T", "S", "T", ":", "F" >>,
              << "X", "C", "S", "X", "P", "P" >> }

Classes == { "InOutRecordPositioner", "TTReflaser", "YagLom", "Dectris",
             "Diode", "Foil", "LODCM" }

\* a device is an instance of a class built with a prefix
Device(cls, prefix) == [cls |-> cls, prefix |-> prefix]
NoDevice == Device("none", << >>)

\* in_states as the instance sees it (Foil.__init__ sets it from the prefix)
in_states(d) ==
    CASE d.cls = "TTReflaser" -> << "TT", "REFL" >>
      [] d.cls = "YagLom"     -> << "YAG", "SLIT1", "SLIT2", "SLIT3" >>
      [] d.cls = "Dectris"    -> << "DECTRIS", "SLIT1", "SLIT2", "SLIT3" >>
      [] d.cls = "LODCM"      -> << "C", "Si" >>
      [] d.cls = "Foil"       ->
            IF IsSubstring(XPP, d.prefix)
            THEN << "Mo", "Zr", "Zn", "Cu", "Ni", "Fe", "Ti" >>
            ELSE IF IsSubstring(XCS, d.prefix)
            THEN << "Mo", "Zr", "Ge", "Cu", "Ni", "Fe", "Ti" >>
            ELSE << >>
      [] OTHER                -> << "IN" >>

\* out_states with a slit state of the Dectris listed as out as well
out_states_shared(d) ==
    IF d.cls = "Dectris" THEN << "OUT", "OUTLOW", "SLIT3" >> ELSE << "OUT" >>

\* out_states of the class
out_states(d) ==
    IF d.cls = "Dectris" THEN << "OUT", "OUTLOW" >> ELSE << "OUT" >>

\* states_list as the instance sees it
states_list(d) ==
    CASE d.cls = "TTReflaser" -> << "TT", "REFL", "OUT" >>
      [] d.cls = "YagLom"     -> << "OUT", "YAG", "SLIT1", "SLIT2", "SLIT3" >>
      [] d.cls = "Dectris"    ->
            << "OUT", "DECTRIS", "SLIT1", "SLIT2", "SLIT3", "OUTLOW" >>
      [] d.cls = "Diode"      -> << "OUT", "IN" >>
      [] d.cls = "Foil"       -> << "OUT" >> \o in_states(d)
      [] d.cls = "LODCM"      -> << "OUT", "C", "Si" >>
      [] OTHER                -> << "IN", "OUT" >>

\* _states_alias of the class: state name -> its other name
states_alias(d) ==
    CASE d.cls = "YagLom"  -> [n \in {"YAG"} |-> "IN"]
      [] d.cls = "Dectris" -> [n \in {"DECTRIS"} |-> "IN"]
      [] OTHER             -> << >>

\* _transmission of the class, ratios written as Python prints them
transmission_table(d) ==
    IF d.cls = "LODCM" THEN [n \in {"C", "Si"} |-> IF n = "C" THEN "0.8" ELSE "0.7"]
    ELSE << >>

Range(seq) == {seq[k] : k \in 1 .. Len(seq)}

\* the positions the device's record can show
Positions(d) == Range(states_list(d)) \cup {"Unknown"}

\* StatePositioner.get_state: the enum member a state name or alias stands for
get_state(d, name) ==
    LET al == states_alias(d)
    IN  IF \E n \in DOMAIN al : al[n] = name
        THEN CHOOSE n \in DOMAIN al : al[n] = name
        ELSE name

\* _pos_in_list that looks at the first state of the list only
pos_in_list_first(d, pos, state_list, k) ==
    /\ state_list # << >>
    /\ get_state(d, pos) = get_state(d, state_list[1])

\* InOutPositioner._pos_in_list: the for loop from element k on
RECURSIVE pos_in_list(_, _, _, _)
pos_in_list(d, pos, state_list, k) ==
    IF k > Len(state_list) THEN FALSE
    ELSE IF get_state(d, pos) = get_state(d, state_list[k]) THEN TRUE
    ELSE pos_in_list(d, pos, state_list, k + 1)

\* InOutPositioner.inserted
inserted(d, pos) == pos_in_list(d, pos, in_states(d), 1)

\* InOutPositioner.removed
removed(d, pos) == pos_in_list(d, pos, out_states(d), 1)

\* _extend_trans_enum that ignores _transmission
RECURSIVE extend_trans_enum_default(_, _, _, _, _)
extend_trans_enum_default(d, te, state_list, default, k) ==
    IF k > Len(state_list) THEN te
    ELSE extend_trans_enum_default(d,
            (get_state(d, state_list[k]) :> default) @@ te,
            state_list, default, k + 1)

\* InOutPositioner._extend_trans_enum: the for loop from element k on
RECURSIVE extend_trans_enum(_, _, _, _, _)
extend_trans_enum(d, te, state_list, default, k) ==
    IF k > Len(state_list) THEN te
    ELSE LET state == state_list[k]
             tt == transmission_table(d)
             ratio == IF state \in DOMAIN tt THEN tt[state] ELSE default
         IN  extend_trans_enum(d, (get_state(d, state) :> ratio) @@ te,
                               state_list, default, k + 1)

\* self._trans_enum as InOutPositioner.__init__ leaves it
trans_enum(d) ==
    extend_trans_enum(d,
        extend_trans_enum(d, << >>, in_states(d), "0", 1),
        out_states(d), "1", 1)

\* InOutPositioner.transmission
transmission(d, pos) ==
    LET te == trans_enum(d)
        state == get_state(d, pos)
    IN  IF state \in DOMAIN te THEN te[state] ELSE "nan"

\* what a call gave back: the kind of status or exception, and for a read
\* of the properties their values
Ret(kind) == [kind |-> kind, inserted |-> FALSE, removed |-> FALSE,
              transmission |-> ""]
Props(d, pos) == [kind |-> "props", inserted |-> inserted(d, pos),
                  removed |-> removed(d, pos),
                  transmission |-> transmission(d, pos)]

IOIdle ==
    /\ dev = NoDevice
    /\ position = ""
    /\ requested = << >>
    /\ ret = Ret("none")
    /\ io_op = "none"

\* a device of any class, built with any prefix, found at any position
InOutInit ==
    /\ dev \in {Device(c, p) : c \in Classes, p \in Prefixes}
    /\ position \in Positions(dev)
    /\ requested = << >>
    /\ ret = Ret("none")
    /\ io_op = "none"

\* StatePositioner.move as insert and remove use it: the target is requested
move(target) ==
    /\ requested' = Append(requested, target)
    /\ ret' = Ret("MoveStatus")

\* insert that picks the last state of in_states
InsertLast ==
    /\ Len(requested) < MaxMoves
    /\ io_op' = "insert"
    /\ IF in_states(dev) = << >>
       THEN ret' = Ret("IndexError") /\ UNCHANGED requested
       ELSE move(in_states(dev)[Len(in_states(dev))])
    /\ UNCHANGED << dev, position >>
    /\ UNCHANGED << pvVars, updVars, recVars, lomVars, restVars >>

\* InOutPositioner.insert()
Insert ==
    /\ Len(requested) < MaxMoves
    /\ io_op' = "insert"
    /\ IF in_states(dev) = << >>
       THEN \* self.in_states[0] raises IndexError
            ret' = Ret("IndexError") /\ UNCHANGED requested
       ELSE move(in_states(dev)[1])
    /\ UNCHANGED << dev, position >>
    /\ UNCHANGED << pvVars, updVars, recVars, lomVars, restVars >>

\* remove that skips the move only at the first state of out_states
RemoveFirstOnly ==
    /\ Len(requested) < MaxMoves
    /\ io_op' = "remove"
    /\ IF position = out_states(dev)[1]
       THEN ret' = Ret("NullStatus") /\ UNCHANGED requested
       ELSE move(out_states(dev)[1])
    /\ UNCHANGED << dev, position >>
    /\ UNCHANGED << pvVars, updVars, recVars, lomVars, restVars >>

\* InOutPositioner.remove()
Remove ==
    /\ Len(requested) < MaxMoves
    /\ io_op' = "remove"
    /\ IF removed(dev, position)
       THEN ret' = Ret("NullStatus") /\ UNCHANGED requested
       ELSE move(out_states(dev)[1])
    /\ UNCHANGED << dev, position >>
    /\ UNCHANGED << pvVars, updVars, recVars, lomVars, restVars >>

\* a caller reads inserted, removed and transmission
ReadProps ==
    /\ io_op' = "props"
    /\ ret' = Props(dev, position)
    /\ UNCHANGED << dev, position, requested >>
    /\ UNCHANGED << pvVars, updVars, recVars, lomVars, restVars >>

\* the record shows a new position
Arrive(p) ==
    /\ p # position
    /\ position' = p
    /\ io_op' = "readback"
    /\ ret' = Ret("none")
    /\ UNCHANGED << dev, requested >>
    /\ UNCHANGED << pvVars, updVars, recVars, lomVars, restVars >>

-----------------------------------------------------------------------------
(***************************************************************************)
(* LODCM (lodcm.py): where the beam goes after H1N.                        *)
(***************************************************************************)

\* a Python value in a destination list: a str, or a list of str
PyStr(s) == [list |-> FALSE, s |-> s, l |-> << >>]
PyList(l) == [list |-> TRUE, s |-> "", l |-> l]

\* a Python list of str
StrList(names) == [k \in 1 .. Len(names) |-> PyStr(names[k])]

\* the line names an LODCM is built with; the first of each is the default
MainLines == { << "MAIN" >>, << "CXI", "MFX" >> }
MonoLines == { << "MONO" >>, << "XCS" >> }

Diagnostics == {"yag", "dectris", "diode", "foil"}

\* the components yag, dectris, diode and foil of an LODCM with this prefix
DiaDevice(prefix, name) ==
    CASE name = "yag"     -> Device("YagLom", prefix \o << ":", "D", "V" >>)
      [] name = "dectris" -> Device("Dectris", prefix \o << ":", "D", "H" >>)
      [] name = "diode"   -> Device("Diode", prefix \o << ":", "D", "I" >>)
      [] name = "foil"    -> Device("Foil", prefix \o << ":", "F" >>)

NotRead == [read |-> FALSE, clear |-> FALSE, v |-> << >>]

LomIdle ==
    /\ h1n = ""
    /\ dia = << >>
    /\ main_line = << >>
    /\ mono_line = << >>
    /\ dest = NotRead

\* LODCM.branches
branches(main, mono) == main \o mono

\* _dia_clear that lets the diode block the beam too
dia_clear_with_diode(prefix, d) ==
    /\ removed(DiaDevice(prefix, "yag"), d["yag"])
    /\ removed(DiaDevice(prefix, "dectris"), d["dectris"])
    /\ removed(DiaDevice(prefix, "diode"), d["diode"])
    /\ removed(DiaDevice(prefix, "foil"), d["foil"])

\* LODCM._dia_clear
dia_clear(prefix, d) ==
    LET yag_clear == removed(DiaDevice(prefix, "yag"), d["yag"])
        dectris_clear == removed(DiaDevice(prefix, "dectris"), d["dectris"])
        foil_clear == removed(DiaDevice(prefix, "foil"), d["foil"])
    IN  yag_clear /\ dectris_clear /\ foil_clear

\* LODCM.destination
destination(pos, clear, main, mono) ==
    IF pos = "OUT" THEN main
    ELSE IF pos = "Si" /\ clear THEN mono
    ELSE IF pos = "C"
         THEN IF clear
              \* list(itertools.chain((mono_line, main_line))): chain is given
              \* one iterable, the tuple, and yields its two elements
              THEN << PyList(mono), PyList(main) >>
              ELSE main
    ELSE << >>

\* LODCM.__init__ with any prefix and line names; the motors at any position
LodcmInit ==
    /\ dev \in {Device("LODCM", p) : p \in Prefixes}
    /\ h1n \in Positions(dev)
    /\ dia \in [Diagnostics -> {"OUT", "Unknown"}]
    /\ main_line \in {StrList(m) : m \in MainLines}
    /\ mono_line \in {StrList(m) : m \in MonoLines}
    /\ dest = NotRead
    /\ position = ""
    /\ requested = << >>
    /\ ret = Ret("none")
    /\ io_op = "none"

\* a caller reads LODCM.destination
ReadDestination ==
    /\ dest' = [read |-> TRUE,
                clear |-> dia_clear(dev.prefix, dia),
                v |-> destination(h1n, dia_clear(dev.prefix, dia),
                                  main_line, mono_line)]
    /\ UNCHANGED << h1n, dia, main_line, mono_line >>
    /\ UNCHANGED << pvVars, updVars, recVars, ioVars, restVars >>

\* the H1N record shows a new position
H1NArrive(p) ==
    /\ p # h1n
    /\ h1n' = p
    /\ dest' = NotRead
    /\ UNCHANGED << dia, main_line, mono_line >>
    /\ UNCHANGED << pvVars, updVars, recVars, ioVars, restVars >>

\* the record of diagnostic n shows a new position
DiaArrive(n, p) ==
    /\ p # dia[n]
    /\ dia' = [dia EXCEPT ![n] = p]
    /\ dest' = NotRead
    /\ UNCHANGED << h1n, main_line, mono_line >>
    /\ UNCHANGED << pvVars, updVars, recVars, ioVars, restVars >>

-----------------------------------------------------------------------------
(***************************************************************************)
(* LODCM (epics/lodcm.py): where the light goes for a given incoming line. *)
(***************************************************************************)

\* the line argument: None, a str or an int
LineNone == [kind |-> "None", s |-> "", n |-> 0]
LineStr(s) == [kind |-> "str", s |-> s, n |-> 0]
LineInt(n) == [kind |-> "int", s |-> "", n |-> n]

\* light_states: the member names in order, the first having the value 0
light_states == << "BLOCKED", "MAIN", "MONO", "BOTH", "UNKNOWN" >>

\* the value of the member of light_states with this name
MemberValue(name) ==
    (CHOOSE k \in 1 .. Len(light_states) : light_states[k] = name) - 1

\* the line arguments callers pass: None, every member name and value, a
\* string that names no member and an integer that is no member's value
Lines == {LineNone}
            \cup {LineStr(s) : s \in Range(light_states) \cup {"FOO"}}
            \cup {LineInt(n) : n \in 0 .. Len(light_states)}

\* the values a states record of the LODCM can show
LodcmEnums == {"Unknown", "OUT", "C", "Si"}

\* what a call gives: an exception, or a returned value (a str or None)
Raised == [raised |-> TRUE, v |-> ""]
Returned(v) == [raised |-> FALSE, v |-> v]
NotCalled == [raised |-> FALSE, v |-> "not called"]

\* the member the line argument stands for (its value), or the exception
\* that light_states(line) lets through
light_state(l) ==
    CASE l.kind = "None" -> Returned(MemberValue("MAIN"))
      [] l.kind = "str"  ->
            \* light_states[line]; on KeyError light_states(line) raises
            IF l.s \in Range(light_states) THEN Returned(MemberValue(l.s))
            ELSE Raised
      [] l.kind = "int"  ->
            \* light_states[line] raises KeyError, then light_states(line)
            IF l.n \in 0 .. Len(light_states) - 1 THEN Returned(l.n)
            ELSE Raised

\* ("OUT", "C", "Si")
crystal_states == << "OUT", "C", "Si" >>

\* tuple.index: the position counted from 1; callers test membership first
Index(seq, x) == CHOOSE k \in 1 .. Len(seq) : seq[k] = x

\* the main line table with rows and columns exchanged
main_table_transposed ==
    << << "MAIN", "MAIN", "BLOCKED" >>,
       << "MAIN", "BOTH", "BLOCKED" >>,
       << "MAIN", "MAIN", "MONO" >> >>

\* table of the main line branch: rows H1N at OUT, C, Si; columns H2N
main_table ==
    << << "MAIN", "MAIN", "MAIN" >>,
       << "MAIN", "BOTH", "MAIN" >>,
       << "BLOCKED", "BLOCKED", "MONO" >> >>

\* table of the mono line branch, indexed by H2N
mono_table == << "MONO", "BLOCKED", "BLOCKED" >>

\* LODCM.destination(line) of epics/lodcm.py with the records at h1 and h2
epics_destination(l, h1, h2) ==
    LET member == light_state(l)
    IN  IF member.raised THEN Raised
        ELSE IF member.v = MemberValue("MAIN")
        THEN IF h1 \notin Range(crystal_states)
                   \/ h2 \notin Range(crystal_states)
             THEN Returned("UNKNOWN")              \* ValueError from index
             ELSE Returned(main_table[Index(crystal_states, h1)]
                                     [Index(crystal_states, h2)])
        ELSE IF member.v = MemberValue("MONO")
        THEN IF h2 \notin Range(crystal_states)
             THEN Returned("UNKNOWN")
             ELSE Returned(mono_table[Index(crystal_states, h2)])
        ELSE Returned(None)                        \* falls off the end

ElIdle ==
    /\ h1n_state = ""
    /\ h2n_state = ""
    /\ line = LineNone
    /\ el_ret = NotCalled

\* the LODCM connected to its two states records, each showing any value
EpicsLodcmInit ==
    /\ h1n_state \in LodcmEnums
    /\ h2n_state \in LodcmEnums
    /\ line = LineNone
    /\ el_ret = NotCalled

\* a caller calls destination(line=l)
Destination(l) ==
    /\ line' = l
    /\ el_ret' = epics_destination(l, h1n_state, h2n_state)
    /\ UNCHANGED << h1n_state, h2n_state >>
    /\ UNCHANGED << pvVars, updVars, recVars, ioVars, lomVars, motVars,
                    imsVars, subVars, tailVars >>

\* the H1N states record shows a new value
H1NStateChanged(v) ==
    /\ v # h1n_state
    /\ h1n_state' = v
    /\ line' = LineNone
    /\ el_ret' = NotCalled
    /\ UNCHANGED h2n_state
    /\ UNCHANGED << pvVars, updVars, recVars, ioVars, lomVars, motVars,
                    imsVars, subVars, tailVars >>

\* the H2N states record shows a new value
H2NStateChanged(v) ==
    /\ v # h2n_state
    /\ h2n_state' = v
    /\ line' = LineNone
    /\ el_ret' = NotCalled
    /\ UNCHANGED h1n_state
    /\ UNCHANGED << pvVars, updVars, recVars, ioVars, lomVars, motVars,
                    imsVars, subVars, tailVars >>

-----------------------------------------------------------------------------
(***************************************************************************)
(* PCDSMotorBase (epics_motor.py): the PCDS motor record.                  *)
(***************************************************************************)

\* positions and limits range over 0 .. MaxPos
MaxPos == 2

Pos == 0 .. MaxPos

\* the states of the SPG record, the first having the index 0
spg_enum == << "Stop", "Pause", "Go" >>

\* the index the record takes when this enum string is put to it
SpgIndex(name) == (CHOOSE k \in 1 .. Len(spg_enum) : spg_enum[k] = name) - 1

\* an optional number: None or an int
NoneInt == [none |-> TRUE, n |-> 0]
Some(n) == [none |-> FALSE, n |-> n]
OptPos == {NoneInt} \cup {Some(n) : n \in Pos}

\* motor_spg.value: the index, or the enum string
spg_value ==
    IF spg_string THEN StrT(spg_enum[motor_spg + 1]) ELSE IntT(motor_spg)

\* PCDSMotorBase.low_limit
low_limit == low_soft_limit

\* PCDSMotorBase.high_limit
high_limit == high_soft_limit

\* PCDSMotorBase.limits
limits == << low_limit, high_limit >>

\* check_value that rejects the two limits themselves
motor_check_value_open(v) ==
    IF disabled = 1 THEN "Exception: not enabled"
    ELSE IF spg_value \in {IntT(0), StrT("Stop")} THEN "Exception: stopped"
    ELSE IF spg_value \in {IntT(1), StrT("Pause")} THEN "Exception: paused"
    ELSE IF ~(limits[1] < v /\ v < limits[2]) THEN "LimitError"
    ELSE ""

\* check_value that lets a paused motor through
motor_check_value_no_pause(v) ==
    IF disabled = 1 THEN "Exception: not enabled"
    ELSE IF spg_value \in {IntT(0), StrT("Stop")} THEN "Exception: stopped"
    ELSE IF ~(limits[1] <= v /\ v <= limits[2]) THEN "LimitError"
    ELSE ""

\* check_value that trusts the limits cached for the setpoint PV
motor_check_value_pv_limits(v) ==
    IF disabled = 1 THEN "Exception: not enabled"
    ELSE IF spg_value \in {IntT(0), StrT("Stop")} THEN "Exception: stopped"
    ELSE IF spg_value \in {IntT(1), StrT("Pause")} THEN "Exception: paused"
    ELSE IF ~(pv_limits[1] <= v /\ v <= pv_limits[2]) THEN "LimitError"
    ELSE ""

\* PCDSMotorBase.check_value(v): the exception raised, "" when it returns
motor_check_value(v) ==
    IF disabled = 1 THEN "Exception: not enabled"
    ELSE IF spg_value \in {IntT(0), StrT("Stop")} THEN "Exception: stopped"
    ELSE IF spg_value \in {IntT(1), StrT("Pause")} THEN "Exception: paused"
    ELSE IF ~(limits[1] <= v /\ v <= limits[2]) THEN "LimitError"
    ELSE ""

\* a call and its arguments
MOp(name, v, a, b) == [name |-> name, v |-> v, a |-> a, b |-> b]
\* what a call gave: the exception raised ("" for none) and, for limits,
\* the tuple returned
MRet(raised, lo, hi) == [raised |-> raised, lo |-> lo, hi |-> hi]

NoLimitsSet == [set |-> FALSE, a |-> 0, b |-> 0]
NoKnown == [known |-> FALSE, old |-> 0, new |-> 0]

MotIdle ==
    /\ disabled = 0
    /\ motor_spg = 0
    /\ spg_string = FALSE
    /\ low_soft_limit = 0
    /\ high_soft_limit = 0
    /\ pv_limits = << 0, 0 >>
    /\ direction_of_travel = NoneInt
    /\ _position = NoneInt
    /\ m_op = MOp("none", 0, 0, 0)
    /\ m_ret = MRet("", 0, 0)
    /\ last_spg_cmd = "none"
    /\ limits_set = NoLimitsSet
    /\ last_known = NoKnown

\* the motor connected to a record in any state; pyepics has cached the
\* limits the setpoint PV had then
MotorInit ==
    /\ disabled \in {0, 1}
    /\ motor_spg \in 0 .. Len(spg_enum) - 1
    /\ spg_string \in BOOLEAN
    /\ low_soft_limit \in Pos
    /\ high_soft_limit \in Pos
    /\ pv_limits = << low_soft_limit, high_soft_limit >>
    /\ direction_of_travel = NoneInt
    /\ _position = NoneInt
    /\ m_op = MOp("none", 0, 0, 0)
    /\ m_ret = MRet("", 0, 0)
    /\ last_spg_cmd = "none"
    /\ limits_set = NoLimitsSet
    /\ last_known = NoKnown

\* what every call on the motor leaves alone
MotorFrame ==
    /\ UNCHANGED << spg_string, pv_limits, direction_of_travel, _position,
                    last_known >>
    /\ UNCHANGED << pvVars, updVars, recVars, ioVars, lomVars, elVars,
                    imsVars, subVars, tailVars >>

\* PCDSMotorBase.enable()
Enable ==
    /\ disabled' = 0
    /\ m_op' = MOp("enable", 0, 0, 0)
    /\ m_ret' = MRet("", 0, 0)
    /\ UNCHANGED << motor_spg, low_soft_limit, high_soft_limit,
                    last_spg_cmd, limits_set >>
    /\ MotorFrame

\* PCDSMotorBase.disable()
Disable ==
    /\ disabled' = 1
    /\ m_op' = MOp("disable", 0, 0, 0)
    /\ m_ret' = MRet("", 0, 0)
    /\ UNCHANGED << motor_spg, low_soft_limit, high_soft_limit,
                    last_spg_cmd, limits_set >>
    /\ MotorFrame

\* PCDSMotorBase.stop()
Stop ==
    /\ motor_spg' = SpgIndex("Stop")
    /\ last_spg_cmd' = "stop"
    /\ m_op' = MOp("stop", 0, 0, 0)
    /\ m_ret' = MRet("", 0, 0)
    /\ UNCHANGED << disabled, low_soft_limit, high_soft_limit, limits_set >>
    /\ MotorFrame

\* PCDSMotorBase.pause()
Pause ==
    /\ motor_spg' = SpgIndex("Pause")
    /\ last_spg_cmd' = "pause"
    /\ m_op' = MOp("pause", 0, 0, 0)
    /\ m_ret' = MRet("", 0, 0)
    /\ UNCHANGED << disabled, low_soft_limit, high_soft_limit, limits_set >>
    /\ MotorFrame

\* PCDSMotorBase.go()
Go ==
    /\ motor_spg' = SpgIndex("Go")
    /\ last_spg_cmd' = "go"
    /\ m_op' = MOp("go", 0, 0, 0)
    /\ m_ret' = MRet("", 0, 0)
    /\ UNCHANGED << disabled, low_soft_limit, high_soft_limit, limits_set >>
    /\ MotorFrame

\* PCDSMotorBase.resume(): return self.go()
Resume ==
    /\ motor_spg' = SpgIndex("Go")
    /\ last_spg_cmd' = "resume"
    /\ m_op' = MOp("resume", 0, 0, 0)
    /\ m_ret' = MRet("", 0, 0)
    /\ UNCHANGED << disabled, low_soft_limit, high_soft_limit, limits_set >>
    /\ MotorFrame

\* motor.low_limit = a
SetLowLimit(a) ==
    /\ low_soft_limit' = a
    /\ limits_set' = NoLimitsSet
    /\ m_op' = MOp("low_limit=", 0, a, 0)
    /\ m_ret' = MRet("", 0, 0)
    /\ UNCHANGED << disabled, motor_spg, high_soft_limit, last_spg_cmd >>
    /\ MotorFrame

\* motor.high_limit = b
SetHighLimit(b) ==
    /\ high_soft_limit' = b
    /\ limits_set' = NoLimitsSet
    /\ m_op' = MOp("high_limit=", 0, 0, b)
    /\ m_ret' = MRet("", 0, 0)
    /\ UNCHANGED << disabled, motor_spg, low_soft_limit, last_spg_cmd >>
    /\ MotorFrame

\* motor.limits = (a, b)
SetLimits(a, b) ==
    /\ low_soft_limit' = a
    /\ high_soft_limit' = b
    /\ limits_set' = [set |-> TRUE, a |-> a, b |-> b]
    /\ m_op' = MOp("limits=", 0, a, b)
    /\ m_ret' = MRet("", 0, 0)
    /\ UNCHANGED << disabled, motor_spg, last_spg_cmd >>
    /\ MotorFrame

\* someone else writes the LLM and HLM records
RecordLimitsChanged(a, b) ==
    /\ << a, b >> # << low_soft_limit, high_soft_limit >>
    /\ low_soft_limit' = a
    /\ high_soft_limit' = b
    /\ limits_set' = NoLimitsSet
    /\ m_op' = MOp("records changed", 0, a, b)
    /\ m_ret' = MRet("", 0, 0)
    /\ UNCHANGED << disabled, motor_spg, last_spg_cmd >>
    /\ MotorFrame

\* a caller reads motor.limits
GetLimits ==
    /\ m_op' = MOp("limits", 0, 0, 0)
    /\ m_ret' = MRet("", limits[1], limits[2])
    /\ UNCHANGED << disabled, motor_spg, low_soft_limit, high_soft_limit,
                    last_spg_cmd, limits_set >>
    /\ MotorFrame

\* PCDSMotorBase.check_value(v), v a number the base class accepts
CheckValue(v) ==
    /\ m_op' = MOp("check_value", v, 0, 0)
    /\ m_ret' = MRet(motor_check_value(v), 0, 0)
    /\ UNCHANGED << disabled, motor_spg, low_soft_limit, high_soft_limit,
                    last_spg_cmd, limits_set >>
    /\ MotorFrame

\* _pos_changed that compares the other way round
direction_reversed(old_value, val) ==
    IF ~val.none /\ ~old_value.none
    THEN Some(IF val.n < old_value.n THEN 1 ELSE 0)
    ELSE direction_of_travel

\* the value direction_of_travel holds after _pos_changed(old_value, value)
direction(old_value, val) ==
    IF ~val.none /\ ~old_value.none               \* None not in (value, old)
    THEN Some(IF val.n > old_value.n THEN 1 ELSE 0)
    ELSE direction_of_travel

\* PCDSMotorBase._pos_changed(old_value=old_value, value=val)
PosChanged(old_value, val) ==
    /\ direction_of_travel' = direction(old_value, val)
    \* super()._pos_changed stores the position
    /\ _position' = val
    /\ last_known' = IF ~val.none /\ ~old_value.none
                     THEN [known |-> TRUE, old |-> old_value.n, new |-> val.n]
                     ELSE last_known
    /\ m_op' = MOp("_pos_changed", 0, 0, 0)
    /\ m_ret' = MRet("", 0, 0)
    /\ UNCHANGED << disabled, motor_spg, spg_string, low_soft_limit,
                    high_soft_limit, pv_limits, last_spg_cmd, limits_set >>
    /\ UNCHANGED << pvVars, updVars, recVars, ioVars, lomVars, elVars,
                    imsVars, subVars, tailVars >>

-----------------------------------------------------------------------------
(***************************************************************************)
(* IMS (epics_motor.py): staging an IMS motor.  stage() and auto_setup()   *)
(* block while they wait, so a call is a process whose steps interleave    *)
(* with the changes the IOC makes to SEVR and MSTA.                        *)
(***************************************************************************)

\* x & y of two naturals
RECURSIVE BitAnd(_, _)
BitAnd(x, y) ==
    IF x = 0 \/ y = 0 THEN 0
    ELSE (x % 2) * (y % 2) + 2 * BitAnd(x \div 2, y \div 2)

\* x >> n
ShiftRight(x, n) == x \div (2 ^ n)

\* _bit_flags with the mask of the error field left out
bit_flags_no_mask ==
    [powerup |-> [clear |-> 36, readback |-> 24, mask |-> 1],
     stall   |-> [clear |-> 40, readback |-> 22, mask |-> 1],
     error   |-> [clear |-> 48, readback |-> 15, mask |-> 1]]

\* IMS._bit_flags; a flag without a mask has the mask 1
bit_flags ==
    [powerup |-> [clear |-> 36, readback |-> 24, mask |-> 1],
     stall   |-> [clear |-> 40, readback |-> 22, mask |-> 1],
     error   |-> [clear |-> 48, readback |-> 15, mask |-> 127]]

\* the flags in the reverse of the order clear_all_flags goes through them
flags_reversed == << "error", "stall", "powerup" >>

\* the flags in the order clear_all_flags goes through them
flags_in_order == << "powerup", "stall", "error" >>

\* flag_is_cleared(value) inside _clear_flag(flag)
flag_is_cleared(flag, val) ==
    BitAnd(ShiftRight(val, bit_flags[flag].readback),
           bit_flags[flag].mask) = 0

\* initialize_complete(value) inside reinitialize
initialize_complete(val) == val # 3

\* the condition stage() and auto_setup() reinitialize on
reinitialize_needed == ~Truthy(part_number) \/ error_severity = 3

\* the error codes the error field of MSTA takes in the model
ErrorCodes == {0, 2, 127}

\* values of MSTA: the powerup bit, the stall bit, the error field, and
\* bits that belong to none of the three
MstaValues ==
    { pu * 2^24 + st * 2^22 + er * 2^15 + ot * (2^23 + 2^14 + 1) :
        pu \in {0, 1}, st \in {0, 1}, er \in ErrorCodes, ot \in {0, 1} }

Severities == 0 .. 3
PartNumbers == {"", "MFI"}

ImsIdle ==
    /\ part_number = ""
    /\ error_severity = 0
    /\ bit_status = 0
    /\ ims_pc = "idle"
    /\ ims_call = "none"
    /\ ims_at_call = [part_number |-> "", error_severity |-> 0]
    /\ ims_log = << >>
    /\ ims_puts = << >>
    /\ ims_ret = "none"

\* an IMS motor connected to a record in any state, nothing called yet
ImsInit ==
    /\ part_number \in PartNumbers
    /\ error_severity \in Severities
    /\ bit_status \in MstaValues
    /\ ims_pc = "idle"
    /\ ims_call = "none"
    /\ ims_at_call = [part_number |-> "", error_severity |-> 0]
    /\ ims_log = << >>
    /\ ims_puts = << >>
    /\ ims_ret = "none"

ImsFrame ==
    UNCHANGED << pvVars, updVars, recVars, ioVars, lomVars, elVars, motVars,
                 subVars, tailVars >>

\* where the call goes once the k-th flag is dealt with
AfterFlag(k) ==
    IF k < Len(flags_in_order) THEN flags_in_order[k + 1]
    ELSE IF ims_call = "stage" THEN "super_stage"
    ELSE "idle"

\* stage() or auto_setup() is called: it reads PN and SEVR and, if need be,
\* calls reinitialize(wait=True), which puts 1 to RINI and makes a status
\* whose first check runs at once
Call(which) ==
    /\ ims_pc = "idle"
    /\ ims_call' = which
    /\ ims_at_call' = [part_number |-> part_number,
                       error_severity |-> error_severity]
    /\ ims_ret' = "running"
    /\ IF reinitialize_needed
       THEN /\ ims_puts' = << << "RINI", 1 >> >>
            /\ IF initialize_complete(error_severity)
               THEN /\ ims_log' = << << "call", "reinitialize" >>,
                                     << "returned", "reinitialize" >> >>
                    /\ ims_pc' = flags_in_order[1]
               ELSE /\ ims_log' = << << "call", "reinitialize" >> >>
                    /\ ims_pc' = "reinitialize"
       ELSE /\ ims_puts' = << >>
            /\ ims_log' = << >>
            /\ ims_pc' = flags_in_order[1]
    /\ UNCHANGED << part_number, error_severity, bit_status >>
    /\ ImsFrame

\* the IOC changes SEVR; a call waiting in reinitialize goes on when the
\* new severity is not 3
SeverityChanged(val) ==
    /\ val # error_severity
    /\ error_severity' = val
    /\ IF ims_pc = "reinitialize" /\ initialize_complete(val)
       THEN /\ ims_log' = Append(ims_log, << "returned", "reinitialize" >>)
            /\ ims_pc' = flags_in_order[1]
       ELSE UNCHANGED << ims_log, ims_pc >>
    /\ UNCHANGED << part_number, bit_status, ims_call, ims_at_call,
                    ims_puts, ims_ret >>
    /\ ImsFrame

\* the call reaches _clear_flag for the k-th flag: a flag found cleared
\* gives a finished status at once, otherwise the clear code is put to
\* SEQ_SELN and the call waits on a status that watches MSTA
ClearFlag(k) ==
    LET flag == flags_in_order[k] IN
    /\ ims_pc = flag
    /\ IF flag_is_cleared(flag, bit_status)
       THEN /\ ims_log' = ims_log \o << << "clear", flag >>,
                                       << "returned", flag >> >>
            /\ ims_pc' = AfterFlag(k)
            /\ ims_ret' = IF AfterFlag(k) = "idle" THEN "None" ELSE ims_ret
            /\ UNCHANGED ims_puts
       ELSE /\ ims_log' = Append(ims_log, << "clear", flag >>)
            /\ ims_puts' =
                   Append(ims_puts, << "SEQ_SELN", bit_flags[flag].clear >>)
            /\ ims_pc' = "wait"
            /\ UNCHANGED ims_ret
    /\ UNCHANGED << part_number, error_severity, bit_status, ims_call,
                    ims_at_call >>
    /\ ImsFrame

\* the flag the call is waiting on in _clear_flag
Waiting ==
    CHOOSE k \in 1 .. Len(flags_in_order) :
        ims_log[Len(ims_log)] = << "clear", flags_in_order[k] >>

\* the IOC changes MSTA; a call waiting in _clear_flag goes on when the new
\* value has the flag cleared
StatusChanged(val) ==
    /\ val # bit_status
    /\ bit_status' = val
    /\ IF ims_pc = "wait" /\ flag_is_cleared(flags_in_order[Waiting], val)
       THEN /\ ims_log' = Append(ims_log,
                                 << "returned", flags_in_order[Waiting] >>)
            /\ ims_pc' = AfterFlag(Waiting)
            /\ ims_ret' = IF AfterFlag(Waiting) = "idle" THEN "None"
                          ELSE ims_ret
       ELSE UNCHANGED << ims_log, ims_pc, ims_ret >>
    /\ UNCHANGED << part_number, error_severity, ims_call, ims_at_call,
                    ims_puts >>
    /\ ImsFrame

\* the wait in _clear_flag runs into its timeout: the call raises
WaitTimeout ==
    /\ ims_pc = "wait"
    /\ ims_pc' = "idle"
    /\ ims_ret' = "TimeoutError"
    /\ UNCHANGED << part_number, error_severity, bit_status, ims_call,
                    ims_at_call, ims_log, ims_puts >>
    /\ ImsFrame

\* stage() reaches return super().stage()
SuperStage ==
    /\ ims_pc = "super_stage"
    /\ ims_log' = Append(ims_log, << "call", "super().stage" >>)
    /\ ims_pc' = "idle"
    /\ ims_ret' = "staged"
    /\ UNCHANGED << part_number, error_severity, bit_status, ims_call,
                    ims_at_call, ims_puts >>
    /\ ImsFrame

-----------------------------------------------------------------------------
(***************************************************************************)
(* SubscriptionStatus (epics/state.py): a status that finishes when a      *)
(* callback holds on an event of a device.  Events and the timeout come    *)
(* from other threads; each handler runs to its end before the next.       *)
(***************************************************************************)

\* events carry a value in 0 .. MaxValue
MaxValue == 2
\* at most MaxEvents events follow the construction
MaxEvents == 3

EventValues == 0 .. MaxValue

\* what a call of the user callback can give
Outcomes == {"True", "False", "raise"}

SubIdle ==
    /\ callback = [v \in EventValues |-> "False"]
    /\ device_value = 0
    /\ st_created = FALSE
    /\ st_raised = FALSE
    /\ st_timeout = FALSE
    /\ subscribed = FALSE
    /\ st_done = FALSE
    /\ st_success = FALSE
    /\ nevents = 0
    /\ seen = << >>
    /\ outcomes = << >>
    /\ timed_out_at = 0
    /\ nfinished = 0

\* a device that has had an event, and any callback; no status yet
SubscriptionInit ==
    /\ callback \in [EventValues -> Outcomes]
    /\ device_value \in EventValues
    /\ st_created = FALSE
    /\ st_raised = FALSE
    /\ st_timeout = FALSE
    /\ subscribed = FALSE
    /\ st_done = FALSE
    /\ st_success = FALSE
    /\ nevents = 0
    /\ seen = << >>
    /\ outcomes = << >>
    /\ timed_out_at = 0
    /\ nfinished = 0

SubFrame ==
    UNCHANGED << pvVars, updVars, recVars, ioVars, lomVars, elVars, motVars,
                 imsVars, tailVars >>

\* check_value that finishes on whatever the callback returns
finishes_on_any(outcome) == outcome # "raise"

\* check_value: if success: self._finished(success=True)
finishes(outcome) == outcome = "True"

\* _finished that leaves the subscription in place
subscribed_after_finished_kept == TRUE

\* _finished: self.device.clear_sub(self.check_value)
subscribed_after_finished == FALSE

\* SubscriptionStatus.check_value(value=val) of a subscribed status: the
\* callback is called, and a true result finishes the status
check_value_sub(val) ==
    /\ outcomes' = Append(outcomes, callback[val])
    /\ IF finishes(callback[val])
       THEN \* SubscriptionStatus._finished(success=True)
            /\ subscribed' = subscribed_after_finished
            /\ st_done' = TRUE
            /\ st_success' = TRUE
            /\ nfinished' = nfinished + 1
       ELSE /\ subscribed' = TRUE
            /\ UNCHANGED << st_done, st_success, nfinished >>

\* SubscriptionStatus(device, callback, timeout=...): the base class arms
\* the timeout, then check_value is subscribed and run on the value of the
\* last event
Create(with_timeout) ==
    /\ ~st_created
    /\ st_created' = TRUE
    /\ st_timeout' = with_timeout
    /\ seen' = << device_value >>
    /\ check_value_sub(device_value)
    /\ st_raised' = (callback[device_value] = "raise")
    /\ UNCHANGED << callback, device_value, nevents, timed_out_at >>
    /\ SubFrame

\* the device has an event of the subscribed type with the value val
Event(val) ==
    /\ st_created
    /\ nevents < MaxEvents
    /\ nevents' = nevents + 1
    /\ device_value' = val
    /\ seen' = Append(seen, val)
    /\ IF subscribed
       THEN check_value_sub(val)
       ELSE UNCHANGED << subscribed, outcomes, st_done, st_success,
                         nfinished >>
    /\ UNCHANGED << callback, st_created, st_raised, st_timeout,
                    timed_out_at >>
    /\ SubFrame

\* the timeout of a status that is not done runs out: the timeout thread
\* calls self._finished(success=False)
Timeout ==
    /\ st_created
    /\ st_timeout
    /\ ~st_done
    /\ subscribed' = subscribed_after_finished
    /\ st_done' = TRUE
    /\ st_success' = FALSE
    /\ nfinished' = nfinished + 1
    /\ timed_out_at' = Len(seen)
    /\ UNCHANGED << callback, device_value, st_created, st_raised,
                    st_timeout, nevents, seen, outcomes >>
    /\ SubFrame

-----------------------------------------------------------------------------
(***************************************************************************)
(* StateStatus (epics/state.py): a SubscriptionStatus on SUB_STATE of a    *)
(* state device whose check is device.value == desired_state.  The device  *)
(* is the PVState above, with its monitor threads running _update.         *)
(***************************************************************************)

SsIdle ==
    /\ ss_created = FALSE
    /\ ss_desired = None
    /\ ss_subscribed = FALSE
    /\ ss_done = FALSE
    /\ ss_success = FALSE
    /\ ss_at_create = None
    /\ ss_finished_on = None

\* check_state inside StateStatus.__init__
check_state(desired_state) == value = desired_state

\* SubscriptionStatus.check_value with check_state as the callback, run by
\* whoever delivers the event
StateStatusCheck(desired_state) ==
    IF check_state(desired_state)
    THEN /\ ss_subscribed' = FALSE
         /\ ss_done' = TRUE
         /\ ss_success' = TRUE
         /\ ss_finished_on' = value
    ELSE /\ ss_subscribed' = TRUE
         /\ UNCHANGED << ss_done, ss_success, ss_finished_on >>

\* StateStatus(device, desired_state), no timeout: check_value is
\* subscribed to SUB_STATE and, if SUB_STATE has been run before, run at once
StateStatusCreate(desired_state) ==
    /\ ~ss_created
    /\ ss_created' = TRUE
    /\ ss_desired' = desired_state
    /\ ss_at_create' = value
    /\ IF notified # None
       THEN StateStatusCheck(desired_state)
       ELSE /\ ss_subscribed' = TRUE
            /\ UNCHANGED << ss_done, ss_success, ss_finished_on >>
    /\ UNCHANGED << pvVars, updVars, gaugeVars >>
    /\ UNCHANGED << recVars, ioVars, lomVars, elVars, motVars, imsVars,
                    subVars >>

\* self._run_subs(sub_type=self.SUB_STATE) with the status among the
\* subscribers
RunSubsStatus(s) ==
    /\ pc[s] = "run"
    /\ notified' = value
    /\ pc' = [pc EXCEPT ![s] = "store"]
    /\ IF ss_subscribed
       THEN StateStatusCheck(ss_desired)
       ELSE UNCHANGED << ss_subscribed, ss_done, ss_success,
                         ss_finished_on >>
    /\ UNCHANGED << pvVars, lock, _prev_value, nupdates >>
    /\ UNCHANGED << ss_created, ss_desired, ss_at_create, gaugeVars >>
    /\ UNCHANGED << recVars, ioVars, lomVars, elVars, motVars, imsVars,
                    subVars >>

-----------------------------------------------------------------------------
(***************************************************************************)
(* GaugeSet (gauge.py): a cold-cathode gauge (gcc) and, in the Pirani      *)
(* sets, a Pirani gauge (gpi); the factory GaugeSet picks the class.       *)
(***************************************************************************)

\* pressures range over 0 .. MaxPressure
MaxPressure == 2

Pressures == 0 .. MaxPressure

\* the values onlyGCC is given in calls of the factory, "None" when it is
\* left out
OnlyGCCArgs == {None, "1", "True"}

\* the values prefix_controller is given, "None" when it is left out
ControllerArgs == {None, "TST:R99:GCT:99:A"}

NoGaugeSet == "none"
NoArgs == [onlyGCC |-> None, prefix_controller |-> None]
NoPressure == -1

GaugeIdle ==
    /\ gs_class = NoGaugeSet
    /\ gs_args = NoArgs
    /\ gcc_state = 0
    /\ gcc_pressure = 0
    /\ gpi_pressure = 0
    /\ gs_ret = NoPressure

\* the gauges in any condition, no gauge set made yet
GaugeInit ==
    /\ gs_class = NoGaugeSet
    /\ gs_args = NoArgs
    /\ gcc_state \in {0, 1}
    /\ gcc_pressure \in Pressures
    /\ gpi_pressure \in Pressures
    /\ gs_ret = NoPressure

GaugeFrame ==
    UNCHANGED << pvVars, updVars, recVars, ioVars, lomVars, elVars, motVars,
                 imsVars, subVars, ssVars >>

\* a factory that looks at the controller prefix only
GaugeSetByController(onlyGCC, prefix_controller) ==
    IF prefix_controller # None THEN "GaugeSetPiraniMks" ELSE "GaugeSetPirani"

\* GaugeSet(prefix, name=, index=, onlyGCC=, prefix_controller=): the class
\* of the object returned
GaugeSet(onlyGCC, prefix_controller) ==
    IF onlyGCC \in {"1", "True"}
    THEN IF prefix_controller # None THEN "GaugeSetMks" ELSE "GaugeSetBase"
    ELSE IF prefix_controller # None THEN "GaugeSetPiraniMks"
         ELSE "GaugeSetPirani"

\* pressure() that reads the cold cathode while its state is 1
pressure_swapped ==
    IF gcc_state = 0 THEN gpi_pressure ELSE gcc_pressure

\* GaugeSetPirani.pressure()
pressure ==
    IF gcc_state = 0 THEN gcc_pressure ELSE gpi_pressure

\* a gauge set is made by the factory
MakeGaugeSet(onlyGCC, prefix_controller) ==
    /\ gs_class' = GaugeSet(onlyGCC, prefix_controller)
    /\ gs_args' = [onlyGCC |-> onlyGCC,
                   prefix_controller |-> prefix_controller]
    /\ gs_ret' = NoPressure
    /\ UNCHANGED << gcc_state, gcc_pressure, gpi_pressure >>
    /\ GaugeFrame

\* gcc.state changes
GccStateChanged(v) ==
    /\ v # gcc_state
    /\ gcc_state' = v
    /\ UNCHANGED << gs_class, gs_args, gcc_pressure, gpi_pressure, gs_ret >>
    /\ GaugeFrame

\* gcc.pressure changes
GccPressureChanged(p) ==
    /\ p # gcc_pressure
    /\ gcc_pressure' = p
    /\ UNCHANGED << gs_class, gs_args, gcc_state, gpi_pressure, gs_ret >>
    /\ GaugeFrame

\* gpi.pressure changes
GpiPressureChanged(p) ==
    /\ p # gpi_pressure
    /\ gpi_pressure' = p
    /\ UNCHANGED << gs_class, gs_args, gcc_state, gcc_pressure, gs_ret >>
    /\ GaugeFrame

\* pressure() is called on a GaugeSetPirani
Pressure ==
    /\ gs_class = "GaugeSetPirani"
    /\ gs_ret' = pressure
    /\ UNCHANGED << gs_class, gs_args, gcc_state, gcc_pressure,
                    gpi_pressure >>
    /\ GaugeFrame

TailIdle == SsIdle /\ GaugeIdle

\* idle values of the parts that have nothing to do with state aggregation
RestIdle == ElIdle /\ MotIdle /\ ImsIdle /\ SubIdle /\ TailIdle

-----------------------------------------------------------------------------
(***************************************************************************)
(* The specifications.                                                     *)
(***************************************************************************)

\* reading PVState.value for every table and readback
InitValue == ValueInit /\ UpdIdle /\ RecIdle /\ IOIdle /\ LomIdle /\ RestIdle
NextValue == ReadValue
SpecValue == InitValue /\ [][NextValue]_vars

\* signal monitors running State._update concurrently
InitUpdate == UpdateInit /\ RecIdle /\ IOIdle /\ LomIdle /\ RestIdle
NextUpdate ==
    \/ \E s \in Signals, v \in Readbacks : SignalUpdate(s, v)
    \/ \E s \in Signals : Acquire(s)
    \/ \E s \in Signals : Test(s)
    \/ \E s \in Signals : RunSubs(s)
    \/ \E s \in Signals : StorePrev(s)
    \/ \E s \in Signals : Release(s)
SpecUpdate == InitUpdate /\ [][NextUpdate]_vars

\* moves and readback events of a DeviceStatesRecord
InitRecord == RecordInit /\ PVIdle /\ UpdIdle /\ IOIdle /\ LomIdle /\ RestIdle
NextRecord ==
    \/ \E t \in Targets : RecMove(t)
    \/ \E v \in EnumSet : ReadChanged(v)
SpecRecord == InitRecord /\ [][NextRecord]_vars

\* calls on an InOutPositioner
InitInOut == InOutInit /\ PVIdle /\ UpdIdle /\ RecIdle /\ LomIdle /\ RestIdle
NextInOut ==
    \/ Insert
    \/ Remove
    \/ ReadProps
    \/ \E p \in Positions(dev) : Arrive(p)
SpecInOut == InitInOut /\ [][NextInOut]_vars

\* reads of LODCM.destination as its motors move
InitLodcm == LodcmInit /\ PVIdle /\ UpdIdle /\ RecIdle /\ RestIdle
NextLodcm ==
    \/ ReadDestination
    \/ \E p \in Positions(dev) : H1NArrive(p)
    \/ \E n \in Diagnostics :
           \E p \in Positions(DiaDevice(dev.prefix, n)) : DiaArrive(n, p)
SpecLodcm == InitLodcm /\ [][NextLodcm]_vars

\* calls of epics LODCM.destination as the two crystals move
InitEpicsLodcm ==
    /\ EpicsLodcmInit /\ MotIdle /\ ImsIdle /\ SubIdle /\ TailIdle
    /\ PVIdle /\ UpdIdle /\ RecIdle /\ IOIdle /\ LomIdle
NextEpicsLodcm ==
    \/ \E l \in Lines : Destination(l)
    \/ \E v \in LodcmEnums : H1NStateChanged(v)
    \/ \E v \in LodcmEnums : H2NStateChanged(v)
SpecEpicsLodcm == InitEpicsLodcm /\ [][NextEpicsLodcm]_vars

\* calls on a PCDSMotorBase as its records change
InitMotor ==
    /\ MotorInit /\ ElIdle /\ ImsIdle /\ SubIdle /\ TailIdle
    /\ PVIdle /\ UpdIdle /\ RecIdle /\ IOIdle /\ LomIdle
NextMotor ==
    \/ Enable
    \/ Disable
    \/ Stop
    \/ Pause
    \/ Go
    \/ Resume
    \/ \E a \in Pos : SetLowLimit(a)
    \/ \E b \in Pos : SetHighLimit(b)
    \/ \E a, b \in Pos : SetLimits(a, b)
    \/ \E a, b \in Pos : RecordLimitsChanged(a, b)
    \/ GetLimits
    \/ \E v \in Pos : CheckValue(v)
SpecMotor == InitMotor /\ [][NextMotor]_vars

\* position updates of a PCDSMotorBase
InitMotorPos ==
    /\ MotorInit /\ ElIdle /\ ImsIdle /\ SubIdle /\ TailIdle
    /\ PVIdle /\ UpdIdle /\ RecIdle /\ IOIdle /\ LomIdle
NextMotorPos ==
    \E old_value, val \in OptPos : PosChanged(old_value, val)
SpecMotorPos == InitMotorPos /\ [][NextMotorPos]_vars

\* stage() and auto_setup() of an IMS motor while the IOC changes its records
InitIms ==
    /\ ImsInit /\ ElIdle /\ MotIdle /\ SubIdle /\ TailIdle
    /\ PVIdle /\ UpdIdle /\ RecIdle /\ IOIdle /\ LomIdle
NextIms ==
    \/ \E which \in {"stage", "auto_setup"} : Call(which)
    \/ \E val \in Severities : SeverityChanged(val)
    \/ \E k \in 1 .. Len(flags_in_order) : ClearFlag(k)
    \/ \E val \in MstaValues : StatusChanged(val)
    \/ WaitTimeout
    \/ SuperStage
SpecIms == InitIms /\ [][NextIms]_vars

\* a SubscriptionStatus on a device that keeps having events
InitSubscription ==
    /\ SubscriptionInit /\ ElIdle /\ MotIdle /\ ImsIdle /\ TailIdle
    /\ PVIdle /\ UpdIdle /\ RecIdle /\ IOIdle /\ LomIdle
NextSubscription ==
    \/ \E with_timeout \in BOOLEAN : Create(with_timeout)
    \/ \E val \in EventValues : Event(val)
    \/ Timeout
SpecSubscription == InitSubscription /\ [][NextSubscription]_vars

\* a StateStatus on a PVState whose monitors run _update concurrently
InitStateStatus ==
    /\ UpdateInit /\ RecIdle /\ IOIdle /\ LomIdle /\ RestIdle
NextStateStatus ==
    \/ \E s \in Signals, v \in Readbacks : SignalUpdate(s, v)
    \/ \E s \in Signals : Acquire(s)
    \/ \E s \in Signals : Test(s)
    \/ \E s \in Signals : RunSubsStatus(s)
    \/ \E s \in Signals : StorePrev(s)
    \/ \E s \in Signals : Release(s)
    \/ \E desired_state \in StateNames \cup {"unknown"} :
           StateStatusCreate(desired_state)
SpecStateStatus == InitStateStatus /\ [][NextStateStatus]_vars

\* a gauge set made by the factory while the gauges change
InitGauge ==
    /\ GaugeInit /\ SsIdle /\ ElIdle /\ MotIdle /\ ImsIdle /\ SubIdle
    /\ PVIdle /\ UpdIdle /\ RecIdle /\ IOIdle /\ LomIdle
NextGauge ==
    \/ \E o \in OnlyGCCArgs, c \in ControllerArgs : MakeGaugeSet(o, c)
    \/ \E v \in {0, 1} : GccStateChanged(v)
    \/ \E p \in Pressures : GccPressureChanged(p)
    \/ \E p \in Pressures : GpiPressureChanged(p)
    \/ Pressure
SpecGauge == InitGauge /\ [][NextGauge]_vars

-----------------------------------------------------------------------------
(***************************************************************************)
(* Properties.                                                             *)
(***************************************************************************)

\* C1: when every signal's readback is a key of its table, at least one
\* signal maps to something other than 'defer' and all that do map to the
\* same state name s, PVState.value is s.
C1_ValueIsAgreedState ==
    result # None =>
        \A s \in StateNames :
            ( ( /\ \A i \in Signals : Accounted(i)
                /\ Voting # {}
                /\ \A i \in Voting : Mapped(i) = s )
              => result = s )

\* C1 witness: value read as 'in' from two agreeing signals and a deferring one
C1_Witness ==
    /\ result = "in"
    /\ \A i \in Signals : Accounted(i)
    /\ \E i \in Signals : Mapped(i) = "defer"
    /\ Cardinality(Voting) >= 2

\* C2: PVState.value is 'unknown' whenever some signal's readback is not a
\* key of its table, or two signals that do not defer map to different state
\* names, wherever in the evaluation order the offending signal stands.
C2_UnknownOnUnaccountedOrConflict ==
    result # None =>
        ( ( \/ \E i \in Signals : ~Accounted(i)
            \/ \E i, j \in Voting : Mapped(i) # Mapped(j) )
          => result = "unknown" )

\* C2 witness: value read as 'unknown' where the first and the last signal
\* disagree, a signal between them defers and every readback is accounted for
C2_Witness ==
    /\ result = "unknown"
    /\ \A i \in Signals : Accounted(i)
    /\ \E i, j, k \in Signals :
           /\ i < j /\ j < k
           /\ Mapped(i) = "in" /\ Mapped(j) = "defer" /\ Mapped(k) = "out"
           /\ Voting = {i, k}

\* C3: no state change is left un-notified: once every _update call that the
\* signal updates triggered has returned, the SUB_STATE subscribers have been
\* run for the state value now is.
C3_EveryChangeNotified ==
    (Quiescent /\ nupdates > 0) => notified = value

\* C4: a move to a target other than the current position writes the target
\* to the setpoint and leaves its status open; the open status is completed
\* by the first readback event whose value is not "Unknown", with success
\* exactly when that readback equals the setpoint string, so that reaching
\* the requested state ends the move done and successful.
C4_MoveCompletesAtFirstKnownReadback ==
    [][ /\ ( ( /\ rec_op'.name = "move"
               /\ check_value(rec_op'.arg)
               /\ PyNeq(rec_position, rec_op'.arg) )
             => ( /\ state_set' = AsString(rec_op'.arg)
                  /\ nputs' = nputs + 1
                  /\ status'.made /\ ~status'.done ) )
        /\ ( ( /\ rec_op'.name = "read"
               /\ status.made /\ ~status.done )
             => IF state_rbk' = "Unknown"
                THEN status' = status
                ELSE /\ status'.done
                     /\ status'.success <=> (state_rbk' = state_set) )
      ]_vars

\* C4 witness: a move requested by index has been completed successfully by a
\* readback event showing the requested state
C4_Witness ==
    /\ rec_op.name = "read"
    /\ nputs > 0
    /\ status.made /\ status.done /\ status.success
    /\ state_rbk = state_set
    /\ ~_move_requested

\* C5: inserted is true exactly when the current position is one of
\* in_states and removed exactly when it is one of out_states; a position in
\* neither list gives inserted = removed = false.
C5_InsertedRemovedAreMembership ==
    io_op = "props" =>
        /\ ret.inserted <=> position \in Range(in_states(dev))
        /\ ret.removed <=> position \in Range(out_states(dev))
        /\ ( position \notin Range(in_states(dev)) \cup Range(out_states(dev))
               => (~ret.inserted /\ ~ret.removed) )

\* C5 witness: the properties read at an in state that is not the first one
C5_Witness ==
    /\ io_op = "props"
    /\ Len(in_states(dev)) > 1
    /\ position = in_states(dev)[2]
    /\ ret.inserted /\ ~ret.removed

\* C6: remove() at any state of out_states issues no move and returns a
\* completed status; anywhere else it requests a move to out_states[0].
C6_RemoveSkipsMoveWhenRemoved ==
    [][ io_op' = "remove" =>
            IF position \in Range(out_states(dev))
            THEN requested' = requested /\ ret'.kind = "NullStatus"
            ELSE /\ requested' = Append(requested, out_states(dev)[1])
                 /\ ret'.kind = "MoveStatus"
      ]_vars

\* C6 witness: remove() called at an out state that is not the first one gave
\* back a completed status and requested nothing
C6_Witness ==
    /\ io_op = "remove"
    /\ Len(out_states(dev)) > 1
    /\ position = out_states(dev)[2]
    /\ ret.kind = "NullStatus"
    /\ requested = << >>

\* C7: insert() requests a move to the first state of in_states, for every
\* subclass, every prefix and every current position.
C7_InsertMovesToFirstInState ==
    io_op = "insert" =>
        /\ ret.kind = "MoveStatus"
        /\ in_states(dev) # << >>
        /\ requested # << >>
        /\ requested[Len(requested)] = in_states(dev)[1]

\* the transmission the lookup of C8 prescribes
ExpectedTransmission(d, pos) ==
    IF pos \in DOMAIN transmission_table(d) THEN transmission_table(d)[pos]
    ELSE IF pos \in Range(out_states(d)) THEN "1"
    ELSE IF pos \in Range(in_states(d)) THEN "0"
    ELSE "nan"

\* C8: transmission is the _transmission entry of the current state if there
\* is one, else 1 at an out state, 0 at an in state and nan elsewhere; for
\* LODCM that is OUT -> 1, C -> 0.8, Si -> 0.7.
C8_TransmissionLookup ==
    io_op = "props" =>
        /\ ret.transmission = ExpectedTransmission(dev, position)
        /\ ( dev.cls = "LODCM" =>
                /\ (position = "OUT" => ret.transmission = "1")
                /\ (position = "C" => ret.transmission = "0.8")
                /\ (position = "Si" => ret.transmission = "0.7") )

\* C8 witness: the transmission of an LODCM read at C
C8_Witness ==
    /\ io_op = "props"
    /\ dev.cls = "LODCM"
    /\ position = "C"
    /\ ret.transmission = "0.8"

\* whether the diagnostics are clear in the current state
DiaClearNow == dia_clear(dev.prefix, dia)

\* every element of a destination is a str
AllNames(v) == \A k \in 1 .. Len(v) : ~v[k].list

\* C9: destination is the table OUT -> main_line; Si and clear -> mono_line;
\* Si and not clear -> []; C and not clear -> main_line; C and clear -> the
\* mono and the main line names; any other position -> [].
C9_DestinationTable ==
    dest.read =>
        CASE h1n = "OUT" -> dest.v = main_line
          [] h1n = "Si"  -> dest.v = IF DiaClearNow THEN mono_line ELSE << >>
          [] h1n = "C"   ->
                IF DiaClearNow
                THEN /\ AllNames(dest.v)
                     /\ Range(dest.v) = Range(mono_line) \cup Range(main_line)
                ELSE dest.v = main_line
          [] OTHER       -> dest.v = << >>

\* C10: destination is a list of beamline names, each an element of branches.
C10_DestinationWithinBranches ==
    dest.read =>
        \A k \in 1 .. Len(dest.v) :
            /\ ~dest.v[k].list
            /\ dest.v[k] \in Range(branches(main_line, mono_line))


\* C11: _dia_clear is true exactly when yag is at OUT, dectris at OUT or
\* OUTLOW and foil at OUT; a change of the diode's position alone changes
\* neither _dia_clear nor destination.
C11_DiaClearIgnoresDiode ==
    [][ /\ ( dest'.read =>
               ( dest'.clear <=> ( /\ dia'["yag"] = "OUT"
                                  /\ dia'["dectris"] \in {"OUT", "OUTLOW"}
                                  /\ dia'["foil"] = "OUT" ) ) )
        /\ ( ( /\ dia'["diode"] # dia["diode"]
               /\ \A n \in Diagnostics \ {"diode"} : dia'[n] = dia[n]
               /\ h1n' = h1n )
             => ( /\ dia_clear(dev.prefix, dia') = dia_clear(dev.prefix, dia)
                  /\ destination(h1n', dia_clear(dev.prefix, dia'),
                                 main_line, mono_line)
                       = destination(h1n, dia_clear(dev.prefix, dia),
                                     main_line, mono_line) ) )
      ]_vars

\* C11 witness: the diagnostics read as clear with dectris at OUTLOW and the
\* diode in the beam
C11_Witness ==
    /\ dest.read /\ dest.clear
    /\ dia["dectris"] = "OUTLOW"
    /\ dia["diode"] = "IN"

\* the lines that stand for light coming in on the main line
MainLineArgs == {LineNone, LineInt(1), LineStr("MAIN")}
\* the lines that stand for light coming in on the mono line
MonoLineArgs == {LineInt(2), LineStr("MONO")}
\* destination has been called and has come back
Called == el_ret # NotCalled

\* C12: for light on the main line H1N OUT gives MAIN; H1N C gives BOTH if
\* H2N is C, else MAIN; H1N Si gives MONO if H2N is Si, else BLOCKED; for
\* light on the mono line H2N OUT gives MONO and H2N C or Si gives BLOCKED;
\* UNKNOWN whenever a consulted state is not one of OUT, C, Si.
C12_EpicsDestinationTable ==
    /\ ( (Called /\ line \in MainLineArgs) =>
           el_ret = Returned(
               IF h1n_state \notin {"OUT", "C", "Si"}
                      \/ h2n_state \notin {"OUT", "C", "Si"}
               THEN "UNKNOWN"
               ELSE IF h1n_state = "OUT" THEN "MAIN"
               ELSE IF h1n_state = "C"
                    THEN (IF h2n_state = "C" THEN "BOTH" ELSE "MAIN")
               ELSE (IF h2n_state = "Si" THEN "MONO" ELSE "BLOCKED")) )
    /\ ( (Called /\ line \in MonoLineArgs) =>
           el_ret = Returned(
               IF h2n_state \notin {"OUT", "C", "Si"} THEN "UNKNOWN"
               ELSE IF h2n_state = "OUT" THEN "MONO"
               ELSE "BLOCKED") )

\* C12 witness: destination(1) with H1N at Si and H2N at OUT gave BLOCKED
C12_Witness ==
    /\ line = LineInt(1)
    /\ h1n_state = "Si" /\ h2n_state = "OUT"
    /\ el_ret = Returned("BLOCKED")

\* C13: for every line argument destination accepts without raising it
\* returns one of BLOCKED, MAIN, MONO, BOTH, UNKNOWN.
C13_EpicsDestinationIsLightState ==
    (Called /\ ~el_ret.raised) => el_ret.v \in Range(light_states)

\* C14: check_value(v) raises exactly when the motor is disabled, its SPG
\* field is Stop or Pause, or v lies outside [low_limit, high_limit]; a
\* value equal to either limit is accepted.
C14_CheckValueRaisesExactly ==
    [][m_op'.name = "check_value" =>
          /\ (m_ret'.raised # "") <=>
                 \/ disabled = 1
                 \/ spg_enum[motor_spg + 1] \in {"Stop", "Pause"}
                 \/ m_op'.v < low_soft_limit
                 \/ m_op'.v > high_soft_limit
          /\ (/\ disabled = 0
              /\ spg_enum[motor_spg + 1] = "Go"
              /\ low_soft_limit <= high_soft_limit
              /\ m_op'.v \in {low_soft_limit, high_soft_limit})
                 => m_ret'.raised = ""]_vars

\* a value equal to a limit was checked and accepted
C14_Witness ==
    /\ m_op.name = "check_value"
    /\ m_op.v = high_soft_limit
    /\ low_soft_limit < high_soft_limit
    /\ m_ret.raised = ""

\* C15: after stop() or pause() every check_value is rejected until go() or
\* resume() is called; after go() or resume() no check_value is rejected for
\* being stopped or paused; resume() changes the motor exactly as go() does.
C15_StopPauseGoResume ==
    [][/\ (m_op'.name = "check_value" /\ last_spg_cmd \in {"stop", "pause"})
              => m_ret'.raised # ""
       /\ (m_op'.name = "check_value" /\ last_spg_cmd \in {"go", "resume"})
              => m_ret'.raised \notin {"Exception: stopped",
                                       "Exception: paused"}
       /\ (m_op'.name \in {"go", "resume"})
              => /\ motor_spg' = SpgIndex("Go")
                 /\ UNCHANGED << disabled, spg_string, low_soft_limit,
                                 high_soft_limit, pv_limits,
                                 direction_of_travel, _position >>]_vars

\* a move was refused on a paused motor that is enabled and within limits
C15_Witness ==
    /\ m_op.name = "check_value"
    /\ last_spg_cmd = "pause"
    /\ disabled = 0
    /\ low_soft_limit <= m_op.v /\ m_op.v <= high_soft_limit
    /\ m_ret.raised = "Exception: paused"

\* C16: _pos_changed sets direction_of_travel to 1 when the new position is
\* greater than the old one and to 0 otherwise, provided both are known;
\* with either of them None the direction is left as it was.
C16_DirectionOfTravel ==
    /\ last_known.known =>
           direction_of_travel =
               Some(IF last_known.new > last_known.old THEN 1 ELSE 0)
    /\ ~last_known.known => direction_of_travel = NoneInt

\* after a known increase, an update with the old value unknown has left
\* the direction at 1
C16_Witness ==
    /\ last_known.known
    /\ last_known.new > last_known.old
    /\ _position # NoneInt
    /\ _position.n < last_known.new
    /\ direction_of_travel = Some(1)

\* C17: limits = (a, b) writes a to the low and b to the high soft limit
\* record, reading limits gives the two records, and a check_value after
\* the assignment accepts v (motor enabled and in Go) exactly when
\* a <= v <= b.
C17_LimitsAreTheRecords ==
    [][/\ (m_op'.name = "limits=")
              => /\ low_soft_limit' = m_op'.a
                 /\ high_soft_limit' = m_op'.b
       /\ (m_op'.name = "limits")
              => /\ m_ret'.lo = low_soft_limit
                 /\ m_ret'.hi = high_soft_limit
       /\ (/\ m_op'.name = "check_value"
           /\ limits_set.set
           /\ disabled = 0
           /\ spg_enum[motor_spg + 1] = "Go")
              => ((m_ret'.raised = "") <=>
                     (limits_set.a <= m_op'.v /\ m_op'.v <= limits_set.b))
      ]_vars

\* a value outside the limits the PV had at connection was accepted after
\* the limits were widened by assignment
C17_Witness ==
    /\ m_op.name = "check_value"
    /\ limits_set.set
    /\ m_op.v > pv_limits[2]
    /\ m_op.v <= limits_set.b
    /\ m_ret.raised = ""

\* what a call does when nothing stops it, given what it read at its start
CanonicalOrder ==
    (IF ims_at_call.part_number = "" \/ ims_at_call.error_severity = 3
     THEN << << "call", "reinitialize" >>, << "returned", "reinitialize" >> >>
     ELSE << >>)
    \o << << "clear", "powerup" >>, << "returned", "powerup" >>,
          << "clear", "stall" >>, << "returned", "stall" >>,
          << "clear", "error" >>, << "returned", "error" >> >>
    \o (IF ims_call = "stage" THEN << << "call", "super().stage" >> >>
        ELSE << >>)

\* what the call has behind it when it comes to clear the flag
LogBefore(flag) ==
    LET k == CHOOSE i \in 1 .. Len(CanonicalOrder) :
                 CanonicalOrder[i] = << "clear", flag >>
    IN SubSeq(CanonicalOrder, 1, k - 1)

\* C18: stage() and auto_setup() reinitialize exactly when the part number
\* is missing or the severity is 3 and wait for that before clearing any
\* flag; they clear powerup, stall and error in this order, each clear
\* having returned before the next starts; stage() calls the framework's
\* stage only after the three clears have returned.
C18_StageOrder ==
    ims_call # "none" =>
        /\ Len(ims_log) <= Len(CanonicalOrder)
        /\ ims_log = SubSeq(CanonicalOrder, 1, Len(ims_log))
        /\ (ims_pc = "powerup") => (ims_log = LogBefore("powerup"))
        /\ (ims_pc = "stall") => (ims_log = LogBefore("stall"))
        /\ (ims_pc = "error") => (ims_log = LogBefore("error"))
        /\ (ims_pc = "super_stage")
               => (ims_log = SubSeq(CanonicalOrder, 1, Len(CanonicalOrder) - 1))
        /\ (ims_ret \in {"None", "staged"}) => (ims_log = CanonicalOrder)

\* a stage() that had to reinitialize and to clear all three flags is done
C18_Witness ==
    /\ ims_call = "stage"
    /\ ims_ret = "staged"
    /\ Len(ims_log) = 9
    /\ Len(ims_puts) = 4

\* the first value seen on which the callback returns true, if there is one
FirstTrue ==
    IF \E i \in 1 .. Len(seen) : callback[seen[i]] = "True"
    THEN CHOOSE i \in 1 .. Len(seen) :
             /\ callback[seen[i]] = "True"
             /\ \A j \in 1 .. i - 1 : callback[seen[j]] # "True"
    ELSE 0

\* whether the status ran into its timeout
TimedOut == st_done /\ ~st_success

\* how many of the values seen the status was due to check
Checked ==
    IF TimedOut THEN timed_out_at
    ELSE IF FirstTrue # 0 THEN FirstTrue
    ELSE Len(seen)

C20_DoneMeansUnsubscribed ==
    [][/\ st_done' => ~subscribed'
       /\ st_done => (outcomes' = outcomes /\ nfinished' = nfinished)
       /\ nfinished' <= 1
       /\ st_done' <=> (nfinished' = 1)]_vars

\* an event arrived after the status had timed out and was not checked
C20_Witness ==
    /\ TimedOut
    /\ timed_out_at = 1
    /\ Len(seen) = 2
    /\ callback[seen[2]] = "True"
    /\ Len(outcomes) = 1

\* C21: a StateStatus is finished with success only by a check that read
\* device.value equal to desired_state; and once every _update call has
\* returned, a status made while the device was in another state is done
\* if the device is now in desired_state.
C21_StateStatusFinishes ==
    /\ (ss_done /\ ss_success) => (ss_finished_on = ss_desired)
    /\ (/\ Quiescent
        /\ ss_created
        /\ ss_at_create # ss_desired
        /\ value = ss_desired) => (ss_done /\ ss_success)

\* C22: pressure() of a GaugeSetPirani returns the Pirani pressure when
\* the cold-cathode state reads 1 and the cold-cathode pressure when it
\* reads 0, whatever the state was before.
C22_PressureFollowsGccState ==
    [][(gs_ret' # gs_ret /\ gs_ret' # NoPressure) =>
          /\ (gcc_state = 1) => (gs_ret' = gpi_pressure)
          /\ (gcc_state = 0) => (gs_ret' = gcc_pressure)]_vars

\* with the cold cathode reading 1 and the two gauges apart, pressure()
\* gave the Pirani pressure
C22_Witness ==
    /\ gs_class = "GaugeSetPirani"
    /\ gcc_state = 1
    /\ gpi_pressure # gcc_pressure
    /\ gs_ret = gpi_pressure

\* C23: the factory returns GaugeSetPirani with neither onlyGCC nor
\* prefix_controller, GaugeSetBase with onlyGCC alone, GaugeSetPiraniMks
\* with prefix_controller alone and GaugeSetMks with both.
C23_FactoryPicksClass ==
    gs_class # NoGaugeSet =>
        LET only == gs_args.onlyGCC # None
            ctrl == gs_args.prefix_controller # None
        IN /\ (~only /\ ~ctrl) => (gs_class = "GaugeSetPirani")
           /\ (only /\ ~ctrl) => (gs_class = "GaugeSetBase")
           /\ (~only /\ ctrl) => (gs_class = "GaugeSetPiraniMks")
           /\ (only /\ ctrl) => (gs_class = "GaugeSetMks")

\* the factory was given both arguments
C23_Witness ==
    /\ gs_args.onlyGCC = "True"
    /\ gs_args.prefix_controller # None
    /\ gs_class = "GaugeSetMks"

\* C24: a move to a valid target that names the state the record is in,
\* by its enum string or by its index, issues no put and returns a status
\* that is already done and successful.
C24_MoveToCurrentIsFinished ==
    [][(/\ rec_op'.name = "move"
        /\ check_value(rec_op'.arg)
        /\ AsString(rec_op'.arg) = rec_position)
          => (/\ nputs' = nputs
              /\ status'.made /\ status'.done /\ status'.success)]_vars

\* C25: for a device of any of the classes, at any position, in_states and
\* out_states have no state in common and inserted and removed are never
\* both true.
C25_NeverInsertedAndRemoved ==
    dev # NoDevice =>
        /\ Range(in_states(dev)) \cap Range(out_states(dev)) = {}
        /\ ~(inserted(dev, position) /\ removed(dev, position))
        /\ (io_op = "props") => ~(ret.inserted /\ ret.removed)

\* the properties of a Dectris read at its second out state
C25_Witness ==
    /\ io_op = "props"
    /\ dev.cls = "Dectris"
    /\ position = "OUTLOW"
    /\ ret.removed /\ ~ret.inserted

\* the bits lo .. lo + width - 1 of an MSTA value
Field(val, lo, width) == (val \div 2^lo) % 2^width

\* whether the flag is active in an MSTA value: powerup is bit 24, stall
\* bit 22, error the bits 15 .. 21
Active(flag, val) ==
    CASE flag = "powerup" -> Field(val, 24, 1) # 0
      [] flag = "stall"   -> Field(val, 22, 1) # 0
      [] flag = "error"   -> Field(val, 15, 7) # 0

\* the code that clears the flag
ClearCode(flag) ==
    CASE flag = "powerup" -> 36
      [] flag = "stall"   -> 40
      [] flag = "error"   -> 48

\* C26: _clear_flag(flag) on a flag that is not active writes nothing to
\* SEQ_SELN and returns at once; on an active flag it writes the flag's
\* clear code once and its status completes when, and only when, MSTA shows
\* the flag's field cleared.
C26_ClearFlag ==
    [][\A flag \in {"powerup", "stall", "error"} :
          /\ (ims_pc = flag /\ ims_pc' # flag) =>
                 IF Active(flag, bit_status)
                 THEN /\ ims_puts' =
                             Append(ims_puts, << "SEQ_SELN", ClearCode(flag) >>)
                      /\ ims_log' = Append(ims_log, << "clear", flag >>)
                      /\ ims_pc' = "wait"
                 ELSE /\ ims_puts' = ims_puts
                      /\ ims_log' = ims_log \o << << "clear", flag >>,
                                                 << "returned", flag >> >>
          /\ (/\ ims_pc = "wait"
              /\ ims_log[Len(ims_log)] = << "clear", flag >>
              /\ bit_status' # bit_status) =>
                 IF Active(flag, bit_status')
                 THEN ims_pc' = "wait" /\ ims_log' = ims_log
                 ELSE /\ ims_pc' # "wait"
                      /\ ims_log' = Append(ims_log, << "returned", flag >>)
          /\ Len(SelectSeq(ims_puts',
                           LAMBDA p : p = << "SEQ_SELN", ClearCode(flag) >>))
                 <= 1]_vars

\* the error flag, active with a code whose lowest bit is 0, has been
\* cleared by a command and the wait has returned
C26_Witness ==
    /\ << "SEQ_SELN", 48 >> \in Range(ims_puts)
    /\ << "returned", "error" >> \in Range(ims_log)
    /\ ~Active("error", bit_status)
=============================================================================
